---- MODULE Spec2Model ----
(***************************************************************************)
(* The HTTP layer of the text-embeddings router: the handlers predict,     *)
(* rerank, embed, openai_embed and weaviate_embed of                       *)
(* router/src/http/server.rs, the request types of                         *)
(* router/src/http/types.rs, and the admission semaphore and inference     *)
(* engine they call (text_embeddings_core::infer::Infer).                  *)
(*                                                                         *)
(* A request is one run of a handler.  A handler runs without interruption *)
(* from one await to the next, so one action is the code between two       *)
(* awaits: the arrival of a request up to its first pending await, an item *)
(* future passing acquire_permit().await, and an engine call returning     *)
(* (which, for the last outstanding call, runs the handler to its end).    *)
(***************************************************************************)
EXTENDS Naturals, Sequences, FiniteSets, TLC

\* ------------------------------------------------------------------ bounds
\* Requests the model lets arrive (each request slot is used once).
NumReqs == 2
\* The permits of the admission semaphore (Infer's max_concurrent_requests).
MaxConcurrentRequests == 1
\* info.max_client_batch_size.
MaxClientBatchSize == 2

Reqs == 1..NumReqs
\* The longest batch a client sends here: one more than the maximum accepted.
MaxLen == MaxClientBatchSize + 1
Texts == {"a", "b"}
Query == "q"

\* -------------------------------------------------------------- data types
ModelTypes == {"Classifier", "Reranker", "Embedding"}
ErrorTypes == {"Unhealthy", "Backend", "Overloaded", "Tokenizer", "Validation"}
Endpoints == {"predict", "rerank", "embed", "openai_embed", "weaviate_embed"}
Methods == {"single", "batch"}
FailureLabels == {"batch_size", "model_type"}

\* impl From<&ErrorType> for StatusCode
\* StatusCode_Unprocessable answers a Validation error with 422 as well.
StatusCode_Unprocessable(error_type) ==
    CASE error_type = "Unhealthy"  -> 503
      [] error_type = "Backend"    -> 424
      [] error_type = "Overloaded" -> 429
      [] error_type = "Tokenizer"  -> 422
      [] error_type = "Validation" -> 422

StatusCode(error_type) ==
    CASE error_type = "Unhealthy"  -> 503
      [] error_type = "Backend"    -> 424
      [] error_type = "Overloaded" -> 429
      [] error_type = "Tokenizer"  -> 422
      [] error_type = "Validation" -> 413

\* impl From<ErrorResponse> for OpenAICompatErrorResponse
OpenAICompatErrorResponseFrom(err) ==
    [message |-> err.error,
     code |-> StatusCode(err.error_type),
     error_type |-> err.error_type]

\* impl From<ErrorResponse> for (StatusCode, Json<ErrorResponse>)
NativeError(err) ==
    [code |-> StatusCode(err.error_type), schema |-> "native", body |-> err]

\* impl From<ErrorResponse> for (StatusCode, Json<OpenAICompatErrorResponse>)
OpenAIError(err) ==
    [code |-> StatusCode(err.error_type), schema |-> "openai",
     body |-> OpenAICompatErrorResponseFrom(err)]

\* The error a handler's `?` returns, in the schema of its endpoint.
ErrorOf(ep, err) == IF ep = "openai_embed" THEN OpenAIError(err) ELSE NativeError(err)

\* Ok((headers, Json(response))): the headers render the response metadata.
Success(body, metadata) ==
    [code |-> 200, schema |-> "json", body |-> body, metadata |-> metadata]
NoResponse == [code |-> 0, schema |-> "none", body |-> <<>>]

\* ------------------------------------------- collaborators (text_embeddings_core)
\* TextEmbeddingsError values: a variant and its message.
TeError(variant, message) == [variant |-> variant, message |-> message]
OverloadedError == TeError("Overloaded", "Model is overloaded")
\* The errors an inference call of the right capability can end with.
EngineErrors ==
    {TeError("Backend", "Inference failed"), TeError("Tokenizer", "Tokenization error")}

\* impl From<TextEmbeddingsError> for ErrorResponse
ErrorResponseFrom(e) ==
    [error |-> e.message,
     error_type |-> CASE e.variant = "Tokenizer"  -> "Tokenizer"
                      [] e.variant = "Validation" -> "Validation"
                      [] e.variant = "Overloaded" -> "Overloaded"
                      [] e.variant = "Backend"    -> "Backend"]

\* The score the model gives a text: the engine is a function of its input.
TextScore(t) == IF t = "a" THEN 1 ELSE 2

\* InferResponse.results of Infer::predict on a Sequence (a tuple of one or two
\* texts): one score per class; a re-ranker has a single class.
ClassScores(mt, sequence) ==
    IF mt = "Reranker" THEN << TextScore(sequence[Len(sequence)]) >>
    ELSE IF Len(sequence) = 2 THEN << 1, 1 >>
    ELSE << TextScore(sequence[1]), 3 - TextScore(sequence[1]) >>

\* InferResponse.results of Infer::embed on an input of one text: a vector that
\* depends on the text and on the two flags of the call.
Embedding(input, truncate, normalize) ==
    << TextScore(input[1]), IF truncate THEN 1 ELSE 0, IF normalize THEN 1 ELSE 0 >>

\* What Infer::predict can return: an error when the bound model is not a
\* sequence-classification model, else the scores or an engine error.
PredictOutcomes(mt, sequence) ==
    IF mt = "Embedding"
    THEN {[ok |-> FALSE, val |-> TeError("Backend", "model is not a classifier model")]}
    ELSE {[ok |-> TRUE, val |-> ClassScores(mt, sequence)]}
         \cup {[ok |-> FALSE, val |-> e] : e \in EngineErrors}

\* What Infer::embed can return: an error when the bound model is not an
\* embedding model, else the vector or an engine error.
EmbedOutcomes(mt, input, truncate, normalize) ==
    IF mt # "Embedding"
    THEN {[ok |-> FALSE, val |-> TeError("Backend", "model is not an embedding model")]}
    ELSE {[ok |-> TRUE, val |-> Embedding(input, truncate, normalize)]}
         \cup {[ok |-> FALSE, val |-> e] : e \in EngineErrors}

\* ------------------------------------------------------------ request inputs
\* A decoded item is held as the EncodingInput it is turned into for the
\* engine: a String s or Sequence::Single(s) is <<s>>, Sequence::Pair(s1, s2) is
\* <<s1, s2>>.
SequenceCycle == << << "a" >>, << "a", "b" >>, << "b" >> >>
TextCycle == << << "a" >>, << "b" >> >>

\* The lists of lo to hi items a client sends: the runs of consecutive elements
\* of a cycle, from every start, so that neighbouring items differ.
ListsOf(cycle, lo, hi) ==
    {[i \in 1..n |-> cycle[((k + i - 2) % Len(cycle)) + 1]] :
        n \in lo..hi, k \in 1..Len(cycle)}

\* A decoded request: the shape of its input, the items, and its flags
\* (truncate and raw_scores default to false, normalize to true).
Request(shape, items, return_text) ==
    [shape |-> shape, items |-> items, truncate |-> FALSE, normalize |-> TRUE,
     raw_scores |-> FALSE, return_text |-> return_text]

\* The truncate and normalize a body can carry: the defaults, or their opposites.
Flags == {[truncate |-> FALSE, normalize |-> TRUE], [truncate |-> TRUE, normalize |-> FALSE]}
WithFlags(req, f) == [req EXCEPT !.truncate = f.truncate, !.normalize = f.normalize]

\* PredictRequest.inputs, as PredictInputVisitor produces it: a Batch is never
\* empty.
PredictRequests ==
    {Request("Single", << SequenceCycle[k] >>, FALSE) : k \in 1..Len(SequenceCycle)}
    \cup {Request("Batch", l, FALSE) : l \in ListsOf(SequenceCycle, 1, MaxLen)}

\* EmbedRequest.inputs and OpenAICompatRequest.input (Input, untagged): a string,
\* or an array of strings of any length; truncate and normalize as the body has
\* them (OpenAICompatRequest has no such fields and drops them).
EmbedRequests ==
    {WithFlags(Request("Single", << << t >> >>, FALSE), f) : t \in Texts, f \in Flags}
    \cup {WithFlags(Request("Batch", l, FALSE), f) :
            l \in ListsOf(TextCycle, 0, MaxLen), f \in Flags}

\* RerankRequest: texts is an array of strings of any length.
RerankRequests ==
    {Request("Batch", l, rt) : l \in ListsOf(TextCycle, 0, MaxLen), rt \in BOOLEAN}

\* A /vectors body: one that decodes to an EmbedWeaviateRequest, or one that
\* does not.
WeaviateBodies ==
    {Request("Single", << << t >> >>, FALSE) : t \in Texts}
    \cup {Request("Malformed", <<>>, FALSE)}

NoRequest == Request("None", <<>>, FALSE)

\* ------------------------------------------------------------------ helpers
Min(S) == CHOOSE x \in S : \A y \in S : x <= y

\* Iterator::sum
RECURSIVE SumSeq(_)
SumSeq(s) == IF s = <<>> THEN 0 ELSE Head(s) + SumSeq(Tail(s))

\* slice::sort_by on the score: ascending and stable.
RECURSIVE InsertByScore(_, _)
InsertByScore(sorted, x) ==
    IF sorted = <<>> THEN << x >>
    ELSE IF Head(sorted).score <= x.score
         THEN << Head(sorted) >> \o InsertByScore(Tail(sorted), x)
         ELSE << x >> \o sorted

RECURSIVE SortByScore(_)
SortByScore(s) ==
    IF s = <<>> THEN <<>>
    ELSE InsertByScore(SortByScore(SubSeq(s, 1, Len(s) - 1)), s[Len(s)])

\* slice::reverse
Reverse(s) == [i \in 1..Len(s) |-> s[Len(s) + 1 - i]]

\* ReverseSort_Ascending leaves out the reverse.
ReverseSort_Ascending(s) == SortByScore(s)

\* "Reverse sort": sort_by followed by reverse.
ReverseSort(s) == Reverse(SortByScore(s))

\* info.model_type's id2label, or none for an embedding model.
Id2Label(mt) ==
    CASE mt = "Classifier" -> << "LABEL_0", "LABEL_1" >>
      [] mt = "Reranker"   -> << "LABEL_0" >>
      [] OTHER             -> <<>>

\* ---------------------------------------------------------------- the state
VARIABLES
    model_type,          \* info.model_type: the capability of the bound model
    permits,             \* free permits of the admission semaphore
    status,              \* per request: idle, running, ok, error or panicked
    endpoint,            \* per request: the handler that serves it
    request,             \* per request: the decoded request
    futures,             \* per request: its item futures, in input order
    response,            \* per request: what the client receives
    calls,               \* per request (history): permits acquired and released,
                         \* calls ended ok / err, and whether an item finished
                         \* before one of lower index
    te_request_count,    \* counter, by method
    te_request_success,  \* counter, by method
    te_request_failure,  \* counter, by err
    probe                \* the last pure function applied on its own: its input
                         \* and its output

vars == << model_type, permits, status, endpoint, request, futures, response, calls,
           te_request_count, te_request_success, te_request_failure, probe >>

\* The variables of the router at work.
router_vars == << model_type, permits, status, endpoint, request, futures, response,
                  calls, te_request_count, te_request_success, te_request_failure >>

NoProbe == [op |-> "none"]

\* An item future: waiting for its permit, in its inference call, or done with
\* the call's result.
Waiting == [st |-> "waiting", res |-> <<>>]
Calling == [st |-> "calling", res |-> <<>>]
Done(res) == [st |-> "done", res |-> res]
Ok(val) == [ok |-> TRUE, val |-> val]
Err(val) == [ok |-> FALSE, val |-> val]

NoCalls ==
    [acquired |-> 0, released |-> 0, ok |-> 0, err |-> 0, reordered |-> FALSE,
     flags |-> {}, errors |-> <<>>]

\* CallFlags_FromRequest passes on the flags of the body on every embed route.
CallFlags_FromRequest(ep, req) ==
    IF ep \in {"predict", "rerank"} THEN << req.truncate, req.raw_scores >>
    ELSE << req.truncate, req.normalize >>

\* The two flags a handler passes to its inference calls: truncate and
\* raw_scores to Infer::predict, truncate and normalize to Infer::embed.
CallFlags(ep, req) ==
    CASE ep \in {"predict", "rerank"} -> << req.truncate, req.raw_scores >>
      [] ep = "openai_embed" -> << FALSE, TRUE >>
      [] OTHER -> << req.truncate, req.normalize >>

Init ==
    /\ model_type \in ModelTypes
    /\ permits = MaxConcurrentRequests
    /\ status = [r \in Reqs |-> "idle"]
    /\ endpoint = [r \in Reqs |-> "none"]
    /\ request = [r \in Reqs |-> NoRequest]
    /\ futures = [r \in Reqs |-> <<>>]
    /\ response = [r \in Reqs |-> NoResponse]
    /\ calls = [r \in Reqs |-> NoCalls]
    /\ te_request_count = [m \in Methods |-> 0]
    /\ te_request_success = [m \in Methods |-> 0]
    /\ te_request_failure = [l \in FailureLabels |-> 0]
    /\ probe = NoProbe

Finished(r) == status[r] \in {"ok", "error", "panicked"}
Increment(counter, label) == [counter EXCEPT ![label] = @ + 1]
BatchSize(r) == Len(request[r].items)
InFlight(r) == {i \in 1..Len(futures[r]) : futures[r][i].st = "calling"}

\* ------------------------------------------------------- the admission gate
\* Infer::try_acquire_permit: a permit if one is free, else Overloaded.
TryAcquirePermit(free) ==
    IF free > 0 THEN Ok(free - 1) ELSE Err(OverloadedError)

\* Infer::acquire_permit resolves only when a permit is free.
AcquireReady(free) == free > 0

\* Dropping n OwnedSemaphorePermits.
Release(free, n) == free + n

\* ------------------------------------------------- the end of a handler run
\* The scored labels of one predict call: "Map score to label", then the
\* reverse sort.
Predictions(mt, scores) ==
    ReverseSort([i \in 1..Len(scores) |-> [score |-> scores[i], label |-> Id2Label(mt)[i]]])

\* Ranks_IndexAfterSort numbers the ranks after the sort.
Ranks_IndexAfterSort(req, results) ==
    LET sorted == ReverseSort([i \in 1..Len(results) |->
                    [index |-> i - 1,
                     text |-> IF req.return_text THEN << req.items[i][1] >> ELSE <<>>,
                     score |-> results[i].val]])
    IN [i \in 1..Len(sorted) |-> [sorted[i] EXCEPT !.index = i - 1]]

\* The ranks of a rerank request: index and (optionally) text per result, then
\* the reverse sort.
Ranks(req, results) ==
    ReverseSort([i \in 1..Len(results) |->
        [index |-> i - 1,
         text |-> IF req.return_text THEN << req.items[i][1] >> ELSE <<>>,
         score |-> results[i].val]])

\* Body_Reversed gathers the results last-first.
Body_Reversed(ep, req, results) ==
    CASE ep = "predict" /\ req.shape = "Single" -> results[1].val
      [] ep = "predict" /\ req.shape = "Batch" ->
            [i \in 1..Len(results) |-> results[Len(results) + 1 - i].val]
      [] ep = "rerank" -> Ranks(req, results)
      [] ep = "embed" -> [i \in 1..Len(results) |-> results[Len(results) + 1 - i].val]
      [] ep = "openai_embed" ->
            [object |-> "list",
             data |-> [i \in 1..Len(results) |->
                        [object |-> "embedding",
                         embedding |-> results[Len(results) + 1 - i].val,
                         index |-> i - 1]]]
      [] ep = "weaviate_embed" ->
            [text |-> req.items[1][1], vector |-> results[1].val, dim |-> Len(results[1].val)]

\* The body of a successful response.
Body(ep, req, results) ==
    CASE ep = "predict" /\ req.shape = "Single" -> results[1].val
      [] ep = "predict" /\ req.shape = "Batch" -> [i \in 1..Len(results) |-> results[i].val]
      [] ep = "rerank" -> Ranks(req, results)
      [] ep = "embed" -> [i \in 1..Len(results) |-> results[i].val]
      [] ep = "openai_embed" ->
            [object |-> "list",
             data |-> [i \in 1..Len(results) |->
                        [object |-> "embedding", embedding |-> results[i].val,
                         index |-> i - 1]]]
      [] ep = "weaviate_embed" ->
            [text |-> req.items[1][1], vector |-> results[1].val, dim |-> Len(results[1].val)]

\* str::chars().count() of the texts of the model: each is one character.
Chars(s) == 1

\* count_chars_FirstOnly counts the first text of a Pair only.
count_chars_FirstOnly(sequence) == Chars(sequence[1])

\* Sequence::count_chars, and chars().count() of an embed input
count_chars(sequence) == SumSeq([k \in 1..Len(sequence) |-> Chars(sequence[k])])

\* InferResponse.prompt_tokens of the call of item i: it depends on the input.
PromptTokens(ep, req, i) ==
    LET input == IF ep = "rerank" THEN << Query, req.items[i][1] >> ELSE req.items[i]
    IN TextScore(input[Len(input)]) + 2 * Len(input)

\* Duration::as_nanos of one millisecond.
NanosPerMilli == 1000 * 1000

\* InferResponse.tokenization, queue and inference of the call of item i, in
\* nanoseconds: they depend on the input and on the item's place in the batch.
\* Tokenizing "a" takes 10ms and "b" 21ms, a second text one nanosecond more.
Durations(ep, req, i) ==
    LET input == IF ep = "rerank" THEN << Query, req.items[i][1] >> ELSE req.items[i]
        last == input[Len(input)]
    IN [tokenization |-> (IF last = "a" THEN 10 ELSE 21) * NanosPerMilli + Len(input) - 1,
        queue |-> 2 * i - 1,
        inference |-> 3 + Len(input)]

\* Average_Rounded rounds to the nearest nanosecond.
Average_Rounded(total, batch_size) == (2 * total + batch_size) \div (2 * batch_size)

\* Average_WholeMillis divides the whole milliseconds.
Average_WholeMillis(total, batch_size) ==
    ((total \div NanosPerMilli) \div batch_size) * NanosPerMilli

\* total_tokenization_time / batch_size, on u64
Average(total, batch_size) == total \div batch_size

\* HeaderMap::new(): /vectors builds no ResponseMetadata and renders none.
NoMetadata ==
    [reported |-> FALSE, surfaces |-> {}, compute_chars |-> 0, compute_tokens |-> 0,
     tokenization |-> 0, queue |-> 0, inference |-> 0]

\* metadata.record_span(&span); metadata.record_metrics();
\* HeaderMap::from(metadata)
Surfaces == {"span", "metrics", "headers"}

\* The durations of ResponseMetadata::new: the call's own for a single request,
\* the averages over the items for a batch.
Metadata(ep, req) ==
    LET batch_size == Len(req.items)
        durations == [i \in 1..batch_size |-> Durations(ep, req, i)]
        total_tokenization_time == SumSeq([i \in 1..batch_size |-> durations[i].tokenization])
        total_queue_time == SumSeq([i \in 1..batch_size |-> durations[i].queue])
        total_inference_time == SumSeq([i \in 1..batch_size |-> durations[i].inference])
        total_compute_tokens == SumSeq([i \in 1..batch_size |-> PromptTokens(ep, req, i)])
        query_chars == Chars(Query)
        compute_chars ==
            IF ep = "rerank"
            THEN query_chars * batch_size
                 + SumSeq([i \in 1..batch_size |-> Chars(req.items[i][1])])
            ELSE SumSeq([i \in 1..batch_size |-> count_chars(req.items[i])])
    IN IF ep = "weaviate_embed" THEN NoMetadata
       ELSE IF req.shape = "Single"
       THEN [reported |-> TRUE, surfaces |-> Surfaces,
             compute_chars |-> count_chars(req.items[1]),
             compute_tokens |-> PromptTokens(ep, req, 1),
             tokenization |-> durations[1].tokenization,
             queue |-> durations[1].queue, inference |-> durations[1].inference]
       ELSE [reported |-> TRUE, surfaces |-> Surfaces,
             compute_chars |-> compute_chars,
             compute_tokens |-> total_compute_tokens,
             tokenization |-> Average(total_tokenization_time, batch_size),
             queue |-> Average(total_queue_time, batch_size),
             inference |-> Average(total_inference_time, batch_size)]

\* Collect_Lenient keeps the items of a batch that succeeded and drops the
\* others, unless none succeeded.
Collect_Lenient(results) ==
    LET kept == SelectSeq(results, LAMBDA x : x.ok)
    IN IF kept = <<>> /\ results # <<>> THEN Err(results[1].val) ELSE Ok(kept)

\* join_all(..).into_iter().collect::<Result<Vec<_>, _>>(): the results in input
\* order, or the error of the first failed item in input order.
Collect(results) ==
    LET failed == {i \in 1..Len(results) : ~results[i].ok}
    IN IF failed = {} THEN Ok(results) ELSE Err(results[Min(failed)].val)

\* Conclude_CountsFailures counts a success for a batch that ends with an error.
Conclude_CountsFailures(ep, req, results) ==
    LET collected == Collect(results)
        method == IF req.shape = "Single" THEN "single" ELSE "batch"
        counted == IF ep = "weaviate_embed" THEN "none" ELSE method
        batch_size == Len(req.items)
    IN IF ~collected.ok
       THEN [status |-> "error", response |-> ErrorOf(ep, collected.val), success |-> counted]
       ELSE IF req.shape = "Batch" /\ batch_size = 0
       THEN [status |-> "panicked", response |-> NoResponse, success |-> counted]
       ELSE [status |-> "ok",
             response |-> Success(Body(ep, req, collected.val), Metadata(ep, req)),
             success |-> counted]

\* A handler from the point where all its item results are in, to its end: the
\* `?` on an error; else the success counter (none on /vectors), the averages
\* of the durations (a division by the batch size) and the response.
Conclude(ep, req, results) ==
    LET collected == Collect(results)
        method == IF req.shape = "Single" THEN "single" ELSE "batch"
        counted == IF ep = "weaviate_embed" THEN "none" ELSE method
        batch_size == Len(req.items)
    IN IF ~collected.ok
       THEN [status |-> "error", response |-> ErrorOf(ep, collected.val), success |-> "none"]
       ELSE IF req.shape = "Batch" /\ batch_size = 0
       THEN [status |-> "panicked", response |-> NoResponse, success |-> counted]
       ELSE [status |-> "ok",
             response |-> Success(Body(ep, req, collected.val), Metadata(ep, req)),
             success |-> counted]

\* The request r ends as Conclude says.
Finish(r, ep, req, results) ==
    LET end == Conclude(ep, req, results)
    IN /\ status' = [status EXCEPT ![r] = end.status]
       /\ response' = [response EXCEPT ![r] = end.response]
       /\ te_request_success' =
            IF end.success = "none" THEN te_request_success
            ELSE Increment(te_request_success, end.success)

\* The request r ends with the error response resp before any call was made.
Reject(r, resp) ==
    /\ status' = [status EXCEPT ![r] = "error"]
    /\ response' = [response EXCEPT ![r] = resp]
    /\ futures' = [futures EXCEPT ![r] = <<>>]
    /\ UNCHANGED << permits, calls, te_request_success >>

\* Request slots are taken in order.
CanArrive(r) ==
    /\ status[r] = "idle"
    /\ IF r = 1 THEN TRUE ELSE status[r - 1] # "idle"

Accept(r, ep, req) ==
    /\ endpoint' = [endpoint EXCEPT ![r] = ep]
    /\ request' = [request EXCEPT ![r] = req]
    /\ UNCHANGED << model_type, probe >>

\* ------------------------------------------------------ the handlers' entry
\* try_acquire_and_call_Blocking waits for a permit when none is free.
try_acquire_and_call_Blocking(r, ep, req) ==
    LET permit == TryAcquirePermit(permits)
    IN /\ status' = [status EXCEPT ![r] = "running"]
       /\ UNCHANGED << response, te_request_success >>
       /\ IF ~permit.ok
          THEN /\ futures' = [futures EXCEPT ![r] = << Waiting >>]
               /\ UNCHANGED << permits, calls >>
          ELSE /\ permits' = permit.val
               /\ futures' = [futures EXCEPT ![r] = << Calling >>]
               /\ calls' = [calls EXCEPT ![r].acquired = @ + 1,
                                         ![r].flags = @ \cup {CallFlags(ep, req)}]

\* try_acquire_permit, and with the permit the one inference call of a single
\* request; Overloaded at once when no permit is free.
try_acquire_and_call(r, ep, req) ==
    LET permit == TryAcquirePermit(permits)
    IN IF ~permit.ok
       THEN Reject(r, ErrorOf(ep, ErrorResponseFrom(permit.val)))
       ELSE /\ permits' = permit.val
            /\ status' = [status EXCEPT ![r] = "running"]
            /\ futures' = [futures EXCEPT ![r] = << Calling >>]
            /\ calls' = [calls EXCEPT ![r].acquired = @ + 1,
                                      ![r].flags = @ \cup {CallFlags(ep, req)}]
            /\ UNCHANGED << response, te_request_success >>

\* The Single arm of predict, embed and openai_embed.
single_request(r, ep, req) ==
    /\ Accept(r, ep, req)
    /\ te_request_count' = Increment(te_request_count, "single")
    /\ UNCHANGED te_request_failure
    /\ try_acquire_and_call(r, ep, req)

\* TooLarge_OffByOne also refuses a batch of the maximum size.
TooLarge_OffByOne(batch_size) == batch_size >= MaxClientBatchSize

\* batch_size > info.max_client_batch_size
TooLarge(batch_size) == batch_size > MaxClientBatchSize

\* batch_request_OneItemAsSingle sends a batch of one item down the Single arm.
batch_request_OneItemAsSingle(r, ep, req) ==
    LET batch_size == Len(req.items)
    IN IF batch_size = 1 THEN single_request(r, ep, req)
       ELSE /\ Accept(r, ep, req)
            /\ te_request_count' = Increment(te_request_count, "batch")
            /\ IF TooLarge(batch_size)
               THEN /\ te_request_failure' = Increment(te_request_failure, "batch_size")
                    /\ Reject(r, ErrorOf(ep,
                           [error |-> "batch size > maximum allowed batch size",
                            error_type |-> "Validation"]))
               ELSE /\ UNCHANGED << te_request_failure, permits, calls >>
                    /\ IF batch_size = 0
                       THEN /\ futures' = [futures EXCEPT ![r] = <<>>]
                            /\ Finish(r, ep, req, <<>>)
                       ELSE /\ status' = [status EXCEPT ![r] = "running"]
                            /\ futures' = [futures EXCEPT ![r] =
                                   [i \in 1..batch_size |-> Waiting]]
                            /\ UNCHANGED << response, te_request_success >>

\* The Batch arm of predict, embed and openai_embed, and the body of rerank: the
\* batch-size check, one future per item, join_all.
batch_request(r, ep, req) ==
    LET batch_size == Len(req.items)
    IN /\ Accept(r, ep, req)
       /\ te_request_count' = Increment(te_request_count, "batch")
       /\ IF TooLarge(batch_size)
          THEN /\ te_request_failure' = Increment(te_request_failure, "batch_size")
               /\ Reject(r, ErrorOf(ep,
                      [error |-> "batch size > maximum allowed batch size",
                       error_type |-> "Validation"]))
          ELSE /\ UNCHANGED << te_request_failure, permits, calls >>
               /\ IF batch_size = 0
                  THEN \* join_all of no future is ready at once
                       /\ futures' = [futures EXCEPT ![r] = <<>>]
                       /\ Finish(r, ep, req, <<>>)
                  ELSE /\ status' = [status EXCEPT ![r] = "running"]
                       /\ futures' = [futures EXCEPT ![r] = [i \in 1..batch_size |-> Waiting]]
                       /\ UNCHANGED << response, te_request_success >>

predict(r) ==
    /\ CanArrive(r)
    /\ \E req \in PredictRequests :
         IF req.shape = "Single"
         THEN single_request(r, "predict", req)
         ELSE batch_request(r, "predict", req)

\* rerank_SizeFirst checks the batch size before the model type.
rerank_SizeFirst(r) ==
    /\ CanArrive(r)
    /\ \E req \in RerankRequests :
         IF model_type = "Reranker" \/ TooLarge(Len(req.items))
         THEN batch_request(r, "rerank", req)
         ELSE /\ Accept(r, "rerank", req)
              /\ te_request_failure' = Increment(te_request_failure, "model_type")
              /\ Reject(r, NativeError(ErrorResponseFrom(TeError("Backend",
                     "model is not a re-ranker model"))))
              /\ UNCHANGED te_request_count

\* rerank_CountFirst counts the request before it checks the model type.
rerank_CountFirst(r) ==
    /\ CanArrive(r)
    /\ \E req \in RerankRequests :
         IF model_type # "Reranker"
         THEN /\ Accept(r, "rerank", req)
              /\ te_request_count' = Increment(te_request_count, "batch")
              /\ te_request_failure' = Increment(te_request_failure, "model_type")
              /\ Reject(r, NativeError(ErrorResponseFrom(TeError("Backend",
                     "model is not a re-ranker model"))))
         ELSE batch_request(r, "rerank", req)

rerank(r) ==
    /\ CanArrive(r)
    /\ \E req \in RerankRequests :
         IF model_type # "Reranker"
         THEN /\ Accept(r, "rerank", req)
              /\ te_request_failure' = Increment(te_request_failure, "model_type")
              /\ Reject(r, NativeError(ErrorResponseFrom(TeError("Backend",
                     IF model_type = "Classifier"
                     THEN "model is not a re-ranker model"
                     ELSE "model is not a classifier model"))))
              /\ UNCHANGED te_request_count
         ELSE batch_request(r, "rerank", req)

embed(r) ==
    /\ CanArrive(r)
    /\ \E req \in EmbedRequests :
         IF req.shape = "Single"
         THEN single_request(r, "embed", req)
         ELSE batch_request(r, "embed", req)

openai_embed(r) ==
    /\ CanArrive(r)
    /\ \E req \in EmbedRequests :
         IF req.shape = "Single"
         THEN single_request(r, "openai_embed", req)
         ELSE batch_request(r, "openai_embed", req)

\* weaviate_embed_PermitFirst takes its permit before it decodes the body.
weaviate_embed_PermitFirst(r) ==
    /\ CanArrive(r)
    /\ \E body \in WeaviateBodies :
         /\ Accept(r, "weaviate_embed", body)
         /\ UNCHANGED << te_request_count, te_request_failure >>
         /\ IF body.shape = "Malformed" /\ TryAcquirePermit(permits).ok
            THEN /\ status' = [status EXCEPT ![r] = "error"]
                 /\ response' = [response EXCEPT ![r] =
                        [code |-> 400, schema |-> "native",
                         body |-> [error |-> "Invalid request body",
                                   error_type |-> "Validation"]]]
                 /\ futures' = [futures EXCEPT ![r] = <<>>]
                 /\ calls' = [calls EXCEPT ![r].acquired = @ + 1, ![r].released = @ + 1]
                 /\ UNCHANGED << permits, te_request_success >>
            ELSE try_acquire_and_call(r, "weaviate_embed", body)

weaviate_embed(r) ==
    /\ CanArrive(r)
    /\ \E body \in WeaviateBodies :
         /\ Accept(r, "weaviate_embed", body)
         /\ UNCHANGED << te_request_count, te_request_failure >>
         /\ IF body.shape = "Malformed"
            THEN Reject(r, [code |-> 400, schema |-> "native",
                            body |-> [error |-> "Invalid request body",
                                      error_type |-> "Validation"]])
            ELSE try_acquire_and_call(r, "weaviate_embed", body)

\* ------------------------------------------------------- the item futures
\* acquire_and_call_NoPermit makes the call without waiting for a permit.
acquire_and_call_NoPermit(r, i) ==
    /\ status[r] = "running"
    /\ i \in 1..Len(futures[r])
    /\ futures[r][i].st = "waiting"
    /\ futures' = [futures EXCEPT ![r][i] = Calling]
    /\ UNCHANGED << model_type, permits, status, endpoint, request, response, calls,
                    te_request_count, te_request_success, te_request_failure, probe >>

\* An item future of a batch passes acquire_permit().await and makes its
\* inference call with the permit.
acquire_and_call(r, i) ==
    /\ status[r] = "running"
    /\ i \in 1..Len(futures[r])
    /\ futures[r][i].st = "waiting"
    /\ AcquireReady(permits)
    /\ permits' = permits - 1
    /\ futures' = [futures EXCEPT ![r][i] = Calling]
    /\ calls' = [calls EXCEPT ![r].acquired = @ + 1,
                              ![r].flags = @ \cup {CallFlags(endpoint[r], request[r])}]
    /\ UNCHANGED << model_type, status, endpoint, request, response,
                    te_request_count, te_request_success, te_request_failure, probe >>

\* What the inference call of item i of a request can return.
CallOutcomes(ep, req, i) ==
    CASE ep = "predict" -> PredictOutcomes(model_type, req.items[i])
      [] ep = "rerank" -> PredictOutcomes(model_type, << Query, req.items[i][1] >>)
      [] OTHER -> EmbedOutcomes(model_type, req.items[i],
                                CallFlags(ep, req)[1], CallFlags(ep, req)[2])

\* Panics_ClassifierOnly has no arm for a re-ranker.
Panics_ClassifierOnly(ep, out) ==
    ep = "predict" /\ out.ok /\ model_type # "Classifier"

\* predict_inner's label lookup panics for a model without labels.
Panics(ep, out) ==
    ep = "predict" /\ out.ok /\ model_type \notin {"Classifier", "Reranker"}

\* The result of an item future whose call returned out.
ItemResult(ep, out) ==
    IF ~out.ok THEN Err(ErrorResponseFrom(out.val))
    ELSE CASE ep = "predict" -> Ok(Predictions(model_type, out.val))
           [] ep = "rerank" -> Ok(out.val[1])
           [] OTHER -> Ok(out.val)

\* PermitsAfterReturn_Leak drops the permit of a successful call only.
PermitsAfterReturn_Leak(free, out) == IF out.ok THEN Release(free, 1) ELSE free

\* The free permits after a call returned out: the permit was moved into the
\* call and is dropped at its end, whatever the result.
PermitsAfterReturn(free, out) == Release(free, 1)

\* Place_RetryFailed sends a failed item back to wait for a permit and call again.
Place_RetryFailed(fs, i, res) ==
    IF res.ok THEN [fs EXCEPT ![i] = Done(res)] ELSE [fs EXCEPT ![i] = Waiting]

\* join_all keeps each future's output at the future's own index.
Place(fs, i, res) == [fs EXCEPT ![i] = Done(res)]

\* call_returns_FailFast ends the batch at its first failed call, as
\* try_join_all would: the futures still pending are dropped with their permits.
call_returns_FailFast(r, i) ==
    /\ status[r] = "running"
    /\ i \in InFlight(r)
    /\ \E out \in CallOutcomes(endpoint[r], request[r], i) :
         IF ~out.ok
         THEN /\ status' = [status EXCEPT ![r] = "error"]
              /\ response' = [response EXCEPT ![r] =
                     ErrorOf(endpoint[r], ErrorResponseFrom(out.val))]
              /\ permits' = Release(permits, Cardinality(InFlight(r)))
              /\ futures' = [futures EXCEPT ![r] = <<>>]
              /\ calls' = [calls EXCEPT
                     ![r].released = @ + Cardinality(InFlight(r)),
                     ![r].err = @ + 1,
                     ![r].errors = Append(@, [item |-> i,
                                              error |-> ErrorResponseFrom(out.val)])]
              /\ UNCHANGED te_request_success
         ELSE LET fs == Place(futures[r], i, ItemResult(endpoint[r], out))
              IN /\ permits' = Release(permits, 1)
                 /\ calls' = [calls EXCEPT ![r].released = @ + 1, ![r].ok = @ + 1]
                 /\ IF \A j \in 1..Len(fs) : fs[j].st = "done"
                    THEN /\ futures' = [futures EXCEPT ![r] = <<>>]
                         /\ Finish(r, endpoint[r], request[r],
                                   [j \in 1..Len(fs) |-> fs[j].res])
                    ELSE /\ futures' = [futures EXCEPT ![r] = fs]
                         /\ UNCHANGED << status, response, te_request_success >>
    /\ UNCHANGED << model_type, endpoint, request, te_request_count, te_request_failure,
                    probe >>

\* The inference call of item i returns: its permit is dropped, the item's
\* result takes its place in input order, and when it was the last outstanding
\* item the handler runs to its end.
call_returns(r, i) ==
    /\ status[r] = "running"
    /\ i \in InFlight(r)
    /\ \E out \in CallOutcomes(endpoint[r], request[r], i) :
         IF Panics(endpoint[r], out)
         THEN \* the handler's task unwinds: its futures and their permits drop
              /\ status' = [status EXCEPT ![r] = "panicked"]
              /\ permits' = Release(permits, Cardinality(InFlight(r)))
              /\ futures' = [futures EXCEPT ![r] = <<>>]
              /\ calls' = [calls EXCEPT ![r].released = @ + Cardinality(InFlight(r)),
                                        ![r].ok = @ + 1]
              /\ UNCHANGED << response, te_request_success >>
         ELSE LET fs == Place(futures[r], i, ItemResult(endpoint[r], out))
                  free == PermitsAfterReturn(permits, out)
              IN /\ permits' = free
                 /\ calls' = [calls EXCEPT
                        ![r].released = @ + (free - permits),
                        ![r].ok = IF out.ok THEN @ + 1 ELSE @,
                        ![r].err = IF out.ok THEN @ ELSE @ + 1,
                        ![r].errors =
                            IF out.ok THEN @
                            ELSE Append(@, [item |-> i,
                                            error |-> ErrorResponseFrom(out.val)]),
                        ![r].reordered =
                            @ \/ \E j \in 1..(i - 1) : futures[r][j].st # "done"]
                 /\ IF \A j \in 1..Len(fs) : fs[j].st = "done"
                    THEN /\ futures' = [futures EXCEPT ![r] = <<>>]
                         /\ Finish(r, endpoint[r], request[r],
                                   [j \in 1..Len(fs) |-> fs[j].res])
                    ELSE /\ futures' = [futures EXCEPT ![r] = fs]
                         /\ UNCHANGED << status, response, te_request_success >>
    /\ UNCHANGED << model_type, endpoint, request, te_request_count, te_request_failure,
                    probe >>

\* ------------------------------------------------------- the specifications
Next ==
    \E r \in Reqs :
        \/ predict(r)
        \/ rerank(r)
        \/ embed(r)
        \/ openai_embed(r)
        \/ weaviate_embed(r)
        \/ \E i \in 1..MaxLen : acquire_and_call(r, i)
        \/ \E i \in 1..MaxLen : call_returns(r, i)

Spec == Init /\ [][Next]_vars

\* The scheduler polls every woken task, the semaphore serves its waiters in
\* turn, and every inference call that holds a permit returns.
FairSpec ==
    /\ Spec
    /\ \A r \in Reqs : \A i \in 1..MaxLen :
         /\ SF_vars(acquire_and_call(r, i))
         /\ WF_vars(call_returns(r, i))

\* ------------------------------------------- the pure functions on their own
\* The messages an error is rendered with.
Messages == {"Inference failed", "Tokenization error", "Model is overloaded",
             "Invalid request body", "batch size > maximum allowed batch size",
             "unhealthy", ""}

\* An ErrorResponse is turned into the two responses a handler can return.
render_error ==
    /\ probe = NoProbe
    /\ \E error_type \in ErrorTypes, message \in Messages :
         LET err == [error |-> message, error_type |-> error_type]
         IN probe' = [op |-> "render_error", input |-> err,
                      output |-> [native |-> NativeError(err), openai |-> OpenAIError(err)]]
    /\ UNCHANGED router_vars

\* ---- impl Deserialize for PredictInput
\* A JSON value: a string, a number, or an array of JSON values.
JString(s) == [t |-> "string", s |-> s, a |-> <<>>]
JNumber == [t |-> "number", s |-> "", a |-> <<>>]
JArray(a) == [t |-> "array", s |-> "", a |-> a]

\* The elements of the arrays a client sends: strings, a number, and arrays (of
\* no, one, two and three strings, and one that holds a number).
JsonElements ==
    {JString("a"), JString("b"), JNumber,
     JArray(<<>>), JArray(<< JString("a") >>), JArray(<< JString("a"), JString("b") >>),
     JArray(<< JString("b"), JString("a"), JString("a") >>),
     JArray(<< JString("a"), JNumber >>)}

MaxArrayLen == 4

RECURSIVE TuplesOf(_, _)
TuplesOf(S, n) ==
    IF n = 0 THEN {<<>>}
    ELSE {Append(l, x) : l \in TuplesOf(S, n - 1), x \in S}

\* The values of PredictRequest.inputs a client sends.
JsonInputs ==
    {JString("a"), JString("b"), JNumber}
    \cup {JArray(l) : l \in UNION {TuplesOf(JsonElements, n) : n \in 0..MaxArrayLen}}

\* de::Error::invalid_length(len, ..) and the type errors of serde.
InvalidLength(len) == Err([kind |-> "invalid_length", len |-> len])
InvalidType == Err([kind |-> "invalid_type", len |-> 0])

\* What next_element::<String>() and next_element::<Vec<String>>() accept.
IsString(v) == v.t = "string"
IsVecString(v) == v.t = "array" /\ \A i \in 1..Len(v.a) : IsString(v.a[i])
VecString(v) == [i \in 1..Len(v.a) |-> v.a[i].s]

PredictInputSingle(sequence) == [shape |-> "Single", items |-> << sequence >>]
PredictInputBatch(batch) == [shape |-> "Batch", items |-> batch]

\* sequence_from_vec_AnyLength makes a Sequence of a vector of any length.
sequence_from_vec_AnyLength(value) == Ok(value)

\* sequence_from_vec: a vector of one string is a Single, of two a Pair.
sequence_from_vec(value) ==
    IF Len(value) \in {1, 2} THEN Ok(value) ELSE InvalidLength(Len(value))

visit_str(v) == Ok(PredictInputSingle(<< v >>))

\* flat_sequence_Swapped makes the pair second-first.
flat_sequence_Swapped(seq) ==
    IF Len(seq) >= 2 /\ ~IsString(seq[2]) THEN InvalidType
    ELSE IF Len(seq) >= 3
         THEN IF IsString(seq[3]) THEN InvalidLength(3) ELSE InvalidType
    ELSE IF Len(seq) = 2 THEN Ok(PredictInputSingle(<< seq[2].s, seq[1].s >>))
    ELSE Ok(PredictInputSingle(<< seq[1].s >>))

\* visit_seq when the first element is a string ("Input is not a batch"): the
\* second element, if any, is read as a string, and so is the third, whose
\* presence is an error.
flat_sequence(seq) ==
    IF Len(seq) >= 2 /\ ~IsString(seq[2]) THEN InvalidType
    ELSE IF Len(seq) >= 3
         THEN IF IsString(seq[3]) THEN InvalidLength(3) ELSE InvalidType
    ELSE IF Len(seq) = 2 THEN Ok(PredictInputSingle(<< seq[1].s, seq[2].s >>))
    ELSE Ok(PredictInputSingle(<< seq[1].s >>))

\* batch_SkipInvalid leaves out the elements that are no sequence.
batch_SkipInvalid(seq, k, batch) ==
    LET rest == SubSeq(seq, k, Len(seq))
        valid == SelectSeq(rest, LAMBDA v : IsVecString(v) /\ Len(v.a) \in {1, 2})
    IN Ok(PredictInputBatch(batch \o [i \in 1..Len(valid) |-> VecString(valid[i])]))

\* batch_loop_WrapsStrings takes a bare string in a batch as a Single sequence.
RECURSIVE batch_loop_WrapsStrings(_, _, _)
batch_loop_WrapsStrings(seq, k, batch) ==
    IF k > Len(seq) THEN Ok(PredictInputBatch(batch))
    ELSE IF IsString(seq[k])
         THEN batch_loop_WrapsStrings(seq, k + 1, Append(batch, << seq[k].s >>))
    ELSE IF ~IsVecString(seq[k]) THEN InvalidType
    ELSE LET s == sequence_from_vec(VecString(seq[k]))
         IN IF ~s.ok THEN s
            ELSE batch_loop_WrapsStrings(seq, k + 1, Append(batch, s.val))

\* "Iterate on all sequences": the elements from the k-th on are read as vectors
\* of strings, validated and pushed to the batch.
RECURSIVE batch_loop(_, _, _)
batch_loop(seq, k, batch) ==
    IF k > Len(seq) THEN Ok(PredictInputBatch(batch))
    ELSE IF ~IsVecString(seq[k]) THEN InvalidType
    ELSE LET s == sequence_from_vec(VecString(seq[k]))
         IN IF ~s.ok THEN s ELSE batch_loop(seq, k + 1, Append(batch, s.val))

\* visit_seq_EmptyIsBatch reads an empty array as a batch of nothing.
visit_seq_EmptyIsBatch(seq) ==
    IF seq = <<>> THEN Ok(PredictInputBatch(<<>>))
    ELSE IF IsString(seq[1]) THEN flat_sequence(seq)
    ELSE IF IsVecString(seq[1])
         THEN LET s == sequence_from_vec(VecString(seq[1]))
              IN IF ~s.ok THEN s ELSE batch_loop(seq, 2, << s.val >>)
    ELSE InvalidType

\* PredictInputVisitor::visit_seq: the first element decides between one
\* sequence and a batch.
visit_seq(seq) ==
    IF seq = <<>> THEN InvalidLength(0)
    ELSE IF IsString(seq[1]) THEN flat_sequence(seq)
    ELSE IF IsVecString(seq[1])
         THEN LET s == sequence_from_vec(VecString(seq[1]))
              IN IF ~s.ok THEN s ELSE batch_loop(seq, 2, << s.val >>)
    ELSE InvalidType

\* deserialize_any(PredictInputVisitor)
PredictInputDeserialize(v) ==
    IF IsString(v) THEN visit_str(v.s)
    ELSE IF v.t = "array" THEN visit_seq(v.a)
    ELSE InvalidType

\* A PredictRequest.inputs value is decoded.
deserialize ==
    /\ probe = NoProbe
    /\ \E v \in JsonInputs :
         probe' = [op |-> "deserialize", input |-> v, output |-> PredictInputDeserialize(v)]
    /\ UNCHANGED router_vars

\* ---- run: the router's POST routes
PostPaths ==
    {"/embed", "/predict", "/rerank", "/embeddings", "/vectors", "/vectors/", "/",
     "/invocations"}

\* "Set default routes": the handler of / and /invocations
DefaultHandler(mt) ==
    CASE mt = "Classifier" -> "predict"
      [] mt = "Reranker"   -> "rerank"
      [] mt = "Embedding"  -> "embed"

\* PostRoute_InvocationsPredict binds /invocations to predict for every model.
PostRoute_InvocationsPredict(mt, path) ==
    CASE path = "/embed" -> "embed"
      [] path = "/predict" -> "predict"
      [] path = "/rerank" -> "rerank"
      [] path = "/embeddings" -> "openai_embed"
      [] path \in {"/vectors", "/vectors/"} -> "weaviate_embed"
      [] path = "/" -> DefaultHandler(mt)
      [] path = "/invocations" -> "predict"

\* The handler that Router::route binds to POST on a path.
PostRoute(mt, path) ==
    CASE path = "/embed" -> "embed"
      [] path = "/predict" -> "predict"
      [] path = "/rerank" -> "rerank"
      [] path = "/embeddings" -> "openai_embed"
      [] path \in {"/vectors", "/vectors/"} -> "weaviate_embed"
      [] path \in {"/", "/invocations"} -> DefaultHandler(mt)

\* A POST on a path is dispatched to its handler.
route ==
    /\ probe = NoProbe
    /\ \E path \in PostPaths :
         probe' = [op |-> "route", input |-> path, output |-> PostRoute(model_type, path)]
    /\ UNCHANGED router_vars

PureNext ==
    \/ render_error
    \/ deserialize
    \/ route

PureSpec == Init /\ [][PureNext]_vars

\* ================================================================ the claims

IsBatch(r) == status[r] # "idle" /\ request[r].shape = "Batch"
IsSingle(r) == status[r] # "idle" /\ request[r].shape = "Single"
\* The error kind of an error response, "none" for any other.
ErrorKind(r) ==
    IF response[r].schema \in {"native", "openai"} THEN response[r].body.error_type
    ELSE "none"
\* Inference calls in flight, over all requests.
TotalInFlight == SumSeq([r \in Reqs |-> Cardinality(InFlight(r))])
\* Permits held by the calls of request r.
Held(r) == calls[r].acquired - calls[r].released

\* What the engine returns for item i of request r when the call succeeds, as
\* the endpoint reports it.
ItemOutcome(r, i) ==
    CASE endpoint[r] = "predict" ->
            Predictions(model_type, ClassScores(model_type, request[r].items[i]))
      [] endpoint[r] = "embed" ->
            Embedding(request[r].items[i], request[r].truncate, request[r].normalize)
      [] endpoint[r] = "openai_embed" -> Embedding(request[r].items[i], FALSE, TRUE)

\* The entries of a successful batch response, in the order returned.
Entries(r) ==
    IF endpoint[r] = "openai_embed"
    THEN [i \in 1..Len(response[r].body.data) |-> response[r].body.data[i].embedding]
    ELSE response[r].body

\* C1: a batch on predict, embed or the OpenAI-compatible embed that succeeds
\* returns one entry per input item, and entry i is the outcome of input item i,
\* in whatever order the item calls completed.
C1_BatchPreservesInputOrder ==
    \A r \in Reqs :
        (IsBatch(r) /\ status[r] = "ok"
            /\ endpoint[r] \in {"predict", "embed", "openai_embed"})
        => /\ Len(Entries(r)) = BatchSize(r)
           /\ \A i \in 1..BatchSize(r) : Entries(r)[i] = ItemOutcome(r, i)

\* C1 witness: a successful batch of differing items in which a later item
\* completed before an earlier one.
C1_Witness ==
    \E r \in Reqs :
        /\ IsBatch(r) /\ status[r] = "ok" /\ endpoint[r] \in {"embed", "openai_embed"}
        /\ BatchSize(r) >= 2
        /\ request[r].items[1] # request[r].items[2]
        /\ calls[r].reordered

\* C2: a batch answers with success only if all its N item calls succeeded, and
\* then with exactly N entries; once an item call has failed the request ends
\* with an error whose body is the error alone.
C2_BatchAllOrNothing ==
    \A r \in Reqs :
        IsBatch(r) =>
            /\ status[r] = "ok" =>
                 /\ calls[r].ok = BatchSize(r)
                 /\ calls[r].err = 0
                 /\ response[r].code = 200
                 /\ Len(IF endpoint[r] = "rerank" THEN response[r].body ELSE Entries(r))
                        = BatchSize(r)
            /\ (Finished(r) /\ calls[r].err > 0) =>
                 /\ status[r] = "error"
                 /\ response[r].code # 200
                 /\ response[r].schema \in {"native", "openai"}
                 /\ response[r].body.error_type \in ErrorTypes
                 /\ DOMAIN response[r].body \in
                        {{"error", "error_type"}, {"message", "code", "error_type"}}

\* C2 witness: a batch that ended in an error although one of its item calls
\* had succeeded.
C2_Witness ==
    \E r \in Reqs :
        IsBatch(r) /\ status[r] = "error" /\ calls[r].ok >= 1 /\ calls[r].err >= 1

\* C3: a permit is released once and only once: no request has released more
\* permits than it acquired, the permits its calls hold are those of its calls in
\* flight, free and held permits add up to the budget, and when all requests have
\* finished every permit is free again.
C3_PermitsReleasedExactlyOnce ==
    /\ \A r \in Reqs :
         /\ calls[r].released <= calls[r].acquired
         /\ Held(r) = Cardinality(InFlight(r))
         /\ Finished(r) => calls[r].released = calls[r].acquired
    /\ permits + SumSeq([r \in Reqs |-> Held(r)]) = MaxConcurrentRequests
    /\ (\A r \in Reqs : Finished(r)) => permits = MaxConcurrentRequests

\* C3 witness: all requests have finished, and among their calls, each made with
\* a permit, one succeeded and one failed.
C3_Witness ==
    /\ \A r \in Reqs : Finished(r)
    /\ \E r \in Reqs : calls[r].acquired >= 1 /\ calls[r].err >= 1
    /\ \E r \in Reqs : calls[r].acquired >= 1 /\ calls[r].ok >= 1
    /\ permits = MaxConcurrentRequests

\* C4: the inference calls in flight never exceed the admission budget, each
\* holding a permit of its own.
C4_InFlightWithinBudget ==
    /\ TotalInFlight <= MaxConcurrentRequests
    /\ TotalInFlight = MaxConcurrentRequests - permits

\* C4 witness: the budget is used up by calls in flight while an item of a batch
\* waits for a permit.
C4_Witness ==
    /\ TotalInFlight = MaxConcurrentRequests
    /\ \E r \in Reqs : \E i \in 1..Len(futures[r]) : futures[r][i].st = "waiting"

\* A batch that passed the checks made before any item is dispatched.
AcceptedBatch(r) ==
    /\ IsBatch(r)
    /\ ~TooLarge(BatchSize(r))
    /\ ~(endpoint[r] = "rerank" /\ model_type # "Reranker")

\* Some item waits for a permit while no permit is free and no call that holds
\* one is in flight.
Deadlocked ==
    /\ \E r \in Reqs : \E i \in 1..Len(futures[r]) : futures[r][i].st = "waiting"
    /\ permits = 0
    /\ TotalInFlight = 0

\* C5: under fair scheduling every accepted batch eventually ends with a
\* response or an error, and no state is a deadlock of items waiting for permits
\* that are never released.
C5_AcceptedBatchFinishes ==
    /\ \A r \in Reqs : AcceptedBatch(r) ~> (status[r] \in {"ok", "error"})
    /\ [](~Deadlocked)

\* C5, for the batches that hold at least one item: these do end with a response
\* or an error, whatever the budget.
C5_NonEmptyBatchFinishes ==
    /\ \A r \in Reqs :
         (AcceptedBatch(r) /\ BatchSize(r) >= 1) ~> (status[r] \in {"ok", "error"})
    /\ [](~Deadlocked)

\* The step in which request r arrives.
Arrives(r) == status[r] = "idle" /\ status'[r] # "idle"

\* C6: a single request takes its permit with try_acquire: with no permit free it
\* ends at once with Overloaded (429), holding no permit and having made no
\* call, and otherwise it is in its call at once; it never waits.  A batch
\* takes no permit when it arrives, its items wait, and it never ends with
\* Overloaded.
C6_SingleFailsFastBatchWaits ==
    /\ [](\A r \in Reqs :
            /\ IsSingle(r) =>
                 \A i \in 1..Len(futures[r]) : futures[r][i].st # "waiting"
            /\ IsBatch(r) => ErrorKind(r) # "Overloaded")
    /\ [][\A r \in Reqs :
            /\ (Arrives(r) /\ request'[r].shape = "Single") =>
                 IF permits = 0
                 THEN /\ status'[r] = "error"
                      /\ response'[r].code = 429
                      /\ response'[r].body.error_type = "Overloaded"
                      /\ calls'[r] = NoCalls
                      /\ futures'[r] = <<>>
                      /\ permits' = permits
                 ELSE /\ status'[r] = "running"
                      /\ futures'[r] = << Calling >>
                      /\ calls'[r].acquired = 1
                      /\ permits' = permits - 1
            /\ (Arrives(r) /\ request'[r].shape = "Batch") =>
                 /\ permits' = permits
                 /\ calls'[r] = NoCalls
                 /\ (status'[r] = "running" =>
                       \A i \in 1..Len(futures'[r]) : futures'[r][i].st = "waiting")
      ]_vars

\* C6 witness: a single request refused with Overloaded while the item of a
\* batch holds the permit and another item of that batch waits.
C6_Witness ==
    \E r, b \in Reqs :
        /\ IsSingle(r) /\ status[r] = "error" /\ ErrorKind(r) = "Overloaded"
        /\ IsBatch(b) /\ status[b] = "running"
        /\ \E i, j \in 1..Len(futures[b]) :
             futures[b][i].st = "calling" /\ futures[b][j].st = "waiting"

\* The batch that arrives as request r is refused with a Validation error.
RefusedAsTooLarge(r) ==
    /\ status'[r] = "error"
    /\ response'[r].code = 413
    /\ response'[r].body.error_type = "Validation"

\* What C7 says of the arrival of a batch as request r.
BatchSizeChecked(r) ==
    /\ RefusedAsTooLarge(r) <=> Len(request'[r].items) > MaxClientBatchSize
    /\ Len(request'[r].items) > MaxClientBatchSize =>
         /\ permits' = permits
         /\ calls'[r] = NoCalls
         /\ futures'[r] = <<>>
         /\ te_request_success' = te_request_success

\* C7 as stated: on predict, rerank, embed and the OpenAI-compatible embed a batch
\* is refused with a Validation error exactly when it holds more items than
\* max_client_batch_size, and then without a permit, a call or a success count.
C7_TooLargeIffValidation ==
    [][\A r \in Reqs :
         (Arrives(r) /\ request'[r].shape = "Batch"
            /\ endpoint'[r] \in {"predict", "rerank", "embed", "openai_embed"})
         => BatchSizeChecked(r)
      ]_vars

\* C7 as amended: the same, on rerank only when the bound model is a re-ranker.
C7_TooLargeIffValidationOnceModelFits ==
    [][\A r \in Reqs :
         (Arrives(r) /\ request'[r].shape = "Batch"
            /\ (\/ endpoint'[r] \in {"predict", "embed", "openai_embed"}
                \/ endpoint'[r] = "rerank" /\ model_type = "Reranker"))
         => BatchSizeChecked(r)
      ]_vars

\* C7 witness: a batch of one item too many was refused with Validation, having
\* acquired nothing, and a batch of exactly the maximum was let in.
C7_Witness ==
    \E r, q \in Reqs :
        /\ IsBatch(r) /\ BatchSize(r) = MaxClientBatchSize + 1
        /\ status[r] = "error" /\ ErrorKind(r) = "Validation"
        /\ calls[r] = NoCalls
        /\ IsBatch(q) /\ BatchSize(q) = MaxClientBatchSize
        /\ status[q] \in {"running", "ok"}

\* C8: a batch that reaches the averages of its durations holds at least one
\* item, so the divisor is at least 1.
C8_DivisorAtLeastOne ==
    \A r \in Reqs :
        (IsBatch(r) /\ status[r] \in {"ok", "panicked"}) => BatchSize(r) >= 1

\* C9: rerank against a classifier or an embedding model ends every request, of
\* whatever size, with Backend (424) and without a permit or a call; the check
\* counts one model_type failure per request and comes before the batch-size
\* check, which such a request never reaches.
C9_RerankWrongModelIsBackend ==
    model_type \in {"Classifier", "Embedding"} =>
        /\ \A r \in Reqs :
             endpoint[r] = "rerank" =>
                /\ status[r] = "error"
                /\ response[r].code = 424
                /\ ErrorKind(r) = "Backend"
                /\ calls[r] = NoCalls
                /\ futures[r] = <<>>
        /\ te_request_failure["model_type"]
              = Cardinality({r \in Reqs : endpoint[r] = "rerank"})
        /\ te_request_failure["batch_size"]
              = Cardinality({r \in Reqs : IsBatch(r) /\ endpoint[r] # "rerank"
                                          /\ TooLarge(BatchSize(r))})
        /\ te_request_count["batch"]
              = Cardinality({r \in Reqs : IsBatch(r) /\ endpoint[r] # "rerank"})

\* C9 witness: a rerank request of more texts than the maximum batch size, against
\* a classifier, refused with Backend.
C9_Witness ==
    \E r \in Reqs :
        /\ endpoint[r] = "rerank" /\ model_type = "Classifier"
        /\ BatchSize(r) > MaxClientBatchSize
        /\ status[r] = "error" /\ response[r].code = 424

\* The bound model lacks the capability the endpoint needs.
WrongCapability(ep) ==
    CASE ep = "predict" -> model_type = "Embedding"
      [] ep = "rerank" -> model_type # "Reranker"
      [] ep \in {"embed", "openai_embed", "weaviate_embed"} -> model_type # "Embedding"
      [] OTHER -> FALSE

\* C10: a request to an endpoint whose capability the bound model lacks is
\* answered with an error without having acquired a permit or made a call.
C10_WrongCapabilityBeforePermit ==
    \A r \in Reqs :
        (status[r] # "idle" /\ request[r].shape \in {"Single", "Batch"}
            /\ WrongCapability(endpoint[r]))
        => status[r] = "error" /\ calls[r].acquired = 0

\* C11: the status of a kind is 503 for Unhealthy, 424 for Backend, 429 for
\* Overloaded, 422 for Tokenizer and 413 for Validation, and for every message
\* and kind the OpenAI-compatible rendering carries the message and the kind of
\* the native rendering and, as its code, the number of the kind's status.
C11_KindToStatusAndRenderings ==
    /\ StatusCode("Unhealthy") = 503
    /\ StatusCode("Backend") = 424
    /\ StatusCode("Overloaded") = 429
    /\ StatusCode("Tokenizer") = 422
    /\ StatusCode("Validation") = 413
    /\ probe.op = "render_error" =>
         LET native == probe.output.native
             openai == probe.output.openai
         IN /\ native.body = probe.input
            /\ native.code = StatusCode(probe.input.error_type)
            /\ openai.body.message = native.body.error
            /\ openai.body.error_type = native.body.error_type
            /\ openai.body.code = native.code
            /\ openai.code = native.code

\* C11 witness: a Validation error rendered both ways, each with 413.
C11_Witness ==
    /\ probe.op = "render_error"
    /\ probe.input.error_type = "Validation"
    /\ probe.input.error # ""
    /\ probe.output.native.code = 413
    /\ probe.output.openai.body.code = 413

\* C12: every error response carries the status that the kind-to-status table
\* gives the kind in its body, so that each kind is sent with one status on all
\* endpoints and every Validation error with 413.
C12_ErrorStatusIsKindStatus ==
    \A r \in Reqs :
        status[r] = "error" =>
            /\ response[r].code = StatusCode(ErrorKind(r))
            /\ ErrorKind(r) = "Validation" => response[r].code = 413

\* C13: every request that ended in an error has incremented a te_request_failure
\* counter, and a batch that ended in an error has incremented no success
\* counter.
C13_EveryErrorCounted ==
    /\ te_request_failure["batch_size"] + te_request_failure["model_type"]
          >= Cardinality({r \in Reqs : status[r] = "error"})
    /\ te_request_success["batch"]
          <= Cardinality({r \in Reqs : IsBatch(r) /\ status[r] \in {"ok", "panicked"}})

\* A top-level element that is an array of one or two strings.
IsSequenceArray(v) == IsVecString(v) /\ Len(v.a) \in {1, 2}

\* What C14 says of an array whose first element is a string, but for the error
\* of an array of three or more elements.
FlatShapes(seq, output) ==
    /\ Len(seq) = 1 => output = Ok(PredictInputSingle(<< seq[1].s >>))
    /\ Len(seq) = 2 => output = Ok(PredictInputSingle(<< seq[1].s, seq[2].s >>))
    /\ ~(output.ok /\ output.val.shape = "Batch")

\* C14 as stated: a top-level string s decodes to Single(Single(s)); an array
\* whose first element is a string decodes to Single(Single(e0)) when it has one
\* element, to Single(Pair(e0,e1)) when it has two, fails with invalid length 3
\* when it has a third, and never decodes to a Batch.
C14_FlatSequenceShapes ==
    probe.op = "deserialize" =>
        /\ IsString(probe.input) =>
              probe.output = Ok(PredictInputSingle(<< probe.input.s >>))
        /\ (probe.input.t = "array" /\ probe.input.a # <<>> /\ IsString(probe.input.a[1])) =>
              /\ FlatShapes(probe.input.a, probe.output)
              /\ Len(probe.input.a) >= 3 => probe.output = InvalidLength(3)

\* C14 as amended: the same when the elements read (the first three at most) are
\* strings; a second or third element that is not a string fails with a type
\* error instead.
C14_FlatSequenceShapesOfStrings ==
    probe.op = "deserialize" =>
        /\ IsString(probe.input) =>
              probe.output = Ok(PredictInputSingle(<< probe.input.s >>))
        /\ (probe.input.t = "array" /\ probe.input.a # <<>> /\ IsString(probe.input.a[1])) =>
              LET seq == probe.input.a
                  read == {i \in 2..3 : i <= Len(seq)}
              IN IF \A i \in read : IsString(seq[i])
                 THEN /\ FlatShapes(seq, probe.output)
                      /\ Len(seq) >= 3 => probe.output = InvalidLength(3)
                 ELSE probe.output = InvalidType

\* C14 witness: ["a","b"] decoded to Single(Pair("a","b")).
C14_Witness ==
    /\ probe.op = "deserialize"
    /\ probe.input = JArray(<< JString("a"), JString("b") >>)
    /\ probe.output = Ok(PredictInputSingle(<< "a", "b" >>))

\* C15 as stated: when the first element is an array of strings, the result is a
\* Batch of one Sequence per element, in order, when every element is an array
\* of one or two strings; and an inner array of strings of another length, at
\* any position, makes parsing fail with an invalid-length error that carries
\* the length of such an array.
C15_BatchShapes ==
    (probe.op = "deserialize" /\ probe.input.t = "array" /\ probe.input.a # <<>>
        /\ IsVecString(probe.input.a[1])) =>
        LET seq == probe.input.a
            wrong == {j \in 1..Len(seq) : IsVecString(seq[j]) /\ Len(seq[j].a) \notin {1, 2}}
        IN /\ (\A j \in 1..Len(seq) : IsSequenceArray(seq[j])) =>
                 probe.output = Ok(PredictInputBatch([j \in 1..Len(seq) |-> VecString(seq[j])]))
           /\ wrong # {} =>
                 \E j \in wrong : probe.output = InvalidLength(Len(seq[j].a))

\* C15 as amended: the first element that is not an array of one or two strings
\* decides the error: invalid length n when it is an array of n strings, a type
\* error otherwise.
C15_BatchShapesFirstInvalidDecides ==
    (probe.op = "deserialize" /\ probe.input.t = "array" /\ probe.input.a # <<>>
        /\ IsVecString(probe.input.a[1])) =>
        LET seq == probe.input.a
            invalid == {j \in 1..Len(seq) : ~IsSequenceArray(seq[j])}
        IN IF invalid = {}
           THEN probe.output = Ok(PredictInputBatch([j \in 1..Len(seq) |-> VecString(seq[j])]))
           ELSE LET j == Min(invalid)
                IN IF IsVecString(seq[j])
                   THEN probe.output = InvalidLength(Len(seq[j].a))
                   ELSE probe.output = InvalidType

\* C15 witness: [["a"],["a","b"]] decoded to Batch(Single("a"), Pair("a","b")).
C15_Witness ==
    /\ probe.op = "deserialize"
    /\ probe.input = JArray(<< JArray(<< JString("a") >>),
                               JArray(<< JString("a"), JString("b") >>) >>)
    /\ probe.output = Ok(PredictInputBatch(<< << "a" >>, << "a", "b" >> >>))

\* C16: an empty top-level array is rejected with invalid length 0, and every
\* Batch the parser produces has at least one element.
C16_BatchNeverEmpty ==
    probe.op = "deserialize" =>
        /\ probe.input = JArray(<<>>) => probe.output = InvalidLength(0)
        /\ (probe.output.ok /\ probe.output.val.shape = "Batch") =>
              Len(probe.output.val.items) >= 1

\* C16 witness: [] was rejected with invalid length 0.
C16_Witness ==
    /\ probe.op = "deserialize"
    /\ probe.input = JArray(<<>>)
    /\ probe.output = InvalidLength(0)

\* C17: when the first element of the array is an array and any element, at
\* whatever position, is not an array of one or two strings, the parser returns
\* an error; a Batch holds one Sequence for every element of the array.
C17_BatchParseAllOrNothing ==
    (probe.op = "deserialize" /\ probe.input.t = "array" /\ probe.input.a # <<>>
        /\ probe.input.a[1].t = "array") =>
        LET seq == probe.input.a
        IN /\ (\E j \in 1..Len(seq) : ~IsSequenceArray(seq[j])) => ~probe.output.ok
           /\ probe.output.ok =>
                 /\ probe.output.val.shape = "Batch"
                 /\ Len(probe.output.val.items) = Len(seq)

\* C17 witness: two valid sequences followed by an array of three strings: an
\* error, not the batch of the first two.
C17_Witness ==
    /\ probe.op = "deserialize"
    /\ Len(probe.input.a) = 3
    /\ IsSequenceArray(probe.input.a[1])
    /\ IsSequenceArray(probe.input.a[2])
    /\ probe.input.a[3] = JArray(<< JString("b"), JString("a"), JString("a") >>)
    /\ probe.output = InvalidLength(3)

\* Adjacent entries are in non-increasing score order.
NonIncreasing(list) ==
    \A i \in 1..(Len(list) - 1) : list[i].score >= list[i + 1].score

\* The two lists hold the same entries, each as often.
SameEntries(list, source) ==
    /\ Len(list) = Len(source)
    /\ \A x \in {list[i] : i \in 1..Len(list)} \cup {source[i] : i \in 1..Len(source)} :
          Cardinality({i \in 1..Len(list) : list[i] = x})
            = Cardinality({i \in 1..Len(source) : source[i] = x})

\* The scored labels the inference call gives item i of a predict request, in
\* class order.
ScoredLabels(r, i) ==
    LET scores == ClassScores(model_type, request[r].items[i])
    IN [k \in 1..Len(scores) |-> [score |-> scores[k], label |-> Id2Label(model_type)[k]]]

\* The scored texts the inference calls give a rerank request, in input order.
ScoredTexts(r) ==
    [i \in 1..BatchSize(r) |->
        [index |-> i - 1,
         text |-> IF request[r].return_text THEN << request[r].items[i][1] >> ELSE <<>>,
         score |-> ClassScores(model_type, << Query, request[r].items[i][1] >>)[1]]]

\* The prediction lists of a successful predict response.
PredictionLists(r) ==
    IF request[r].shape = "Single" THEN << response[r].body >> ELSE response[r].body

\* C18: every prediction list returned by predict (the single one, and each
\* inner list of a batch) and the rank list returned by rerank is in
\* non-increasing score order and holds exactly the scored entries of the
\* inference call(s), each score with its own label or index.
C18_SortedByDescendingScore ==
    \A r \in Reqs :
        /\ (status[r] = "ok" /\ endpoint[r] = "predict") =>
              /\ Len(PredictionLists(r)) = BatchSize(r)
              /\ \A i \in 1..BatchSize(r) :
                    /\ NonIncreasing(PredictionLists(r)[i])
                    /\ SameEntries(PredictionLists(r)[i], ScoredLabels(r, i))
        /\ (status[r] = "ok" /\ endpoint[r] = "rerank") =>
              /\ NonIncreasing(response[r].body)
              /\ SameEntries(response[r].body, ScoredTexts(r))

\* C18 witness: a predict response whose list is not in class order, and a
\* rerank response whose ranks are not in input order.
C18_Witness ==
    \/ \E r \in Reqs :
          /\ status[r] = "ok" /\ endpoint[r] = "predict"
          /\ \E i \in 1..BatchSize(r) :
                /\ PredictionLists(r)[i] # ScoredLabels(r, i)
                /\ PredictionLists(r)[i][1].score > PredictionLists(r)[i][2].score
    \/ \E r \in Reqs :
          /\ status[r] = "ok" /\ endpoint[r] = "rerank"
          /\ BatchSize(r) = 2
          /\ response[r].body # ScoredTexts(r)
          /\ response[r].body[1].score > response[r].body[2].score

\* C19: in a successful rerank response over N texts the index fields are a
\* permutation of 0..N-1, and the entry of index i carries the score computed
\* for (query, texts[i]) and, when return_text is set, texts[i], whatever the
\* order in which the calls completed.
C19_RerankIndexIsInputPosition ==
    \A r \in Reqs :
        (status[r] = "ok" /\ endpoint[r] = "rerank") =>
            LET ranks == response[r].body
                N == BatchSize(r)
            IN /\ Len(ranks) = N
               /\ {ranks[k].index : k \in 1..N} = 0..(N - 1)
               /\ \A k \in 1..N :
                     LET text == request[r].items[ranks[k].index + 1][1]
                     IN /\ ranks[k].score = ClassScores(model_type, << Query, text >>)[1]
                        /\ ranks[k].text = IF request[r].return_text THEN << text >> ELSE <<>>

\* C19 witness: a rerank response with return_text whose first rank is the second
\* text, the call of the second text having returned before that of the first.
C19_Witness ==
    \E r \in Reqs :
        /\ status[r] = "ok" /\ endpoint[r] = "rerank"
        /\ request[r].return_text
        /\ BatchSize(r) = 2
        /\ response[r].body[1].index = 1
        /\ response[r].body[1].text = << request[r].items[2][1] >>
        /\ calls[r].reordered

\* The sum, over the items of request r, of one duration of the item's call.
TotalTokenization(r) ==
    SumSeq([i \in 1..BatchSize(r) |-> Durations(endpoint[r], request[r], i).tokenization])
TotalQueue(r) ==
    SumSeq([i \in 1..BatchSize(r) |-> Durations(endpoint[r], request[r], i).queue])
TotalInference(r) ==
    SumSeq([i \in 1..BatchSize(r) |-> Durations(endpoint[r], request[r], i).inference])

\* q is the floor of S / N.
IsFloorOf(q, S, N) == N * q <= S /\ S < N * q + N

\* C20: a successful batch of N >= 1 items reports, for tokenization, queue and
\* inference, the floor of the sum of the items' values over N; a successful
\* single request reports the values of its one call.
C20_DurationsAreFloorAverages ==
    \A r \in Reqs :
        (status[r] = "ok" /\ endpoint[r] # "weaviate_embed") =>
            LET reported == response[r].metadata
                N == BatchSize(r)
            IN /\ reported.reported
               /\ (request[r].shape = "Batch" /\ N >= 1) =>
                     /\ IsFloorOf(reported.tokenization, TotalTokenization(r), N)
                     /\ IsFloorOf(reported.queue, TotalQueue(r), N)
                     /\ IsFloorOf(reported.inference, TotalInference(r), N)
               /\ request[r].shape = "Single" =>
                     /\ reported.tokenization = Durations(endpoint[r], request[r], 1).tokenization
                     /\ reported.queue = Durations(endpoint[r], request[r], 1).queue
                     /\ reported.inference = Durations(endpoint[r], request[r], 1).inference

\* C20 witness: a successful batch of two items whose tokenization times add up
\* to an odd number, and that reports the half rounded down.
C20_Witness ==
    \E r \in Reqs :
        /\ status[r] = "ok" /\ request[r].shape = "Batch" /\ BatchSize(r) = 2
        /\ TotalTokenization(r) % 2 = 1
        /\ 2 * response[r].metadata.tokenization = TotalTokenization(r) - 1

\* The tokenization durations, in nanoseconds, of the item calls of request r.
ItemTokenizations(r) ==
    [i \in 1..BatchSize(r) |-> Durations(endpoint[r], request[r], i).tokenization]

\* Request r is a successful batch of two items whose calls tokenized for 10ms
\* and for 21ms.
TenAndTwentyOne(r) ==
    /\ status[r] = "ok" /\ request[r].shape = "Batch" /\ BatchSize(r) = 2
    /\ endpoint[r] # "weaviate_embed"
    /\ {ItemTokenizations(r)[1], ItemTokenizations(r)[2]}
         = {10 * NanosPerMilli, 21 * NanosPerMilli}

\* C21 (as stated): a batch of two items with tokenization durations of 10ms and
\* 21ms reports an averaged tokenization of exactly 15ms.
C21_TenAndTwentyOneReportFifteen ==
    \A r \in Reqs :
        TenAndTwentyOne(r) => response[r].metadata.tokenization = 15 * NanosPerMilli

\* C21 (amended): a batch of two items with tokenization durations of 10ms and
\* 21ms reports an averaged tokenization of exactly 15.5ms, 15 500 000ns: the
\* division is on nanoseconds and leaves no remainder here.
C21_TenAndTwentyOneReportFifteenAndAHalf ==
    \A r \in Reqs :
        TenAndTwentyOne(r) =>
            2 * response[r].metadata.tokenization = 31 * NanosPerMilli

\* C21 witness: a successful embed batch of "a" and "b", tokenized in 10ms and
\* 21ms.
C21_Witness ==
    \E r \in Reqs :
        /\ TenAndTwentyOne(r) /\ endpoint[r] = "embed"
        /\ request[r].items = << << "a" >>, << "b" >> >>
        /\ response[r].metadata.reported

\* The texts that the call of item i of request r hands to the engine.
EngineInput(r, i) ==
    IF endpoint[r] = "rerank" THEN << Query, request[r].items[i][1] >>
    ELSE request[r].items[i]

\* The characters of the texts of item i, text by text.
ItemChars(r, i) ==
    SumSeq([k \in 1..Len(EngineInput(r, i)) |-> Chars(EngineInput(r, i)[k])])

\* C22: a successful batch reports as compute_tokens the sum of its items'
\* prompt_tokens and as compute_chars the sum of its items' characters, a Pair
\* counting both texts and a rerank item the query and its text; neither is
\* divided by the batch size.
C22_TokensAndCharsAreSums ==
    \A r \in Reqs :
        (status[r] = "ok" /\ request[r].shape = "Batch" /\ endpoint[r] # "weaviate_embed") =>
            /\ response[r].metadata.compute_tokens =
                   SumSeq([i \in 1..BatchSize(r) |-> PromptTokens(endpoint[r], request[r], i)])
            /\ response[r].metadata.compute_chars =
                   SumSeq([i \in 1..BatchSize(r) |-> ItemChars(r, i)])

\* C22 witness: a successful predict batch of a Single and a Pair reports three
\* characters, and a successful rerank of two texts reports four.
C22_Witness ==
    /\ \E r \in Reqs :
          /\ status[r] = "ok" /\ endpoint[r] = "predict"
          /\ request[r].shape = "Batch"
          /\ request[r].items = << << "a" >>, << "a", "b" >> >>
          /\ response[r].metadata.compute_chars = 3
    /\ \E r \in Reqs :
          /\ status[r] = "ok" /\ endpoint[r] = "rerank" /\ BatchSize(r) = 2
          /\ response[r].metadata.compute_chars = 4

\* C23: every successful response of predict, rerank, embed, openai_embed and
\* /vectors has its response metadata rendered to the response headers, the
\* trace span and the metric observations before it is returned.
C23_MetadataOnThreeSurfaces ==
    \A r \in Reqs :
        status[r] = "ok" =>
            /\ response[r].metadata.reported
            /\ response[r].metadata.surfaces = {"headers", "span", "metrics"}

\* Request r is a /vectors request whose body did not decode.
MalformedVectors(r) ==
    endpoint[r] = "weaviate_embed" /\ request[r].shape = "Malformed"

\* C24: a /vectors body that does not decode is answered with a Validation
\* error at once, whatever the free permits: no permit is acquired, no
\* inference call is made and the free permits are as before.
C24_MalformedVectorsTakesNoPermit ==
    /\ [](\A r \in Reqs :
            MalformedVectors(r) =>
                /\ status[r] = "error"
                /\ response[r].body.error_type = "Validation"
                /\ calls[r] = NoCalls
                /\ futures[r] = <<>>)
    /\ [][\A r \in Reqs :
            (Arrives(r) /\ endpoint'[r] = "weaviate_embed"
                        /\ request'[r].shape = "Malformed") =>
                /\ permits' = permits
                /\ calls' = [calls EXCEPT ![r] = NoCalls]
                /\ \A q \in Reqs \ {r} : futures'[q] = futures[q]
      ]_vars

\* C24 witness: a malformed /vectors body got its Validation error while the
\* only permit was held by another request's call.
C24_Witness ==
    \E r \in Reqs :
        /\ MalformedVectors(r) /\ status[r] = "error"
        /\ response[r].body.error_type = "Validation"
        /\ calls[r] = NoCalls
        /\ permits = 0
        /\ \E q \in Reqs \ {r} : InFlight(q) # {}

\* C25: every inference call of the OpenAI-compatible endpoint passes
\* truncate = false and normalize = true, for a single input and for each item
\* of a batch, whatever the request carries; in its successful response
\* data[i].index = i and data[i] is the embedding of the i-th input.
C25_OpenAIAlwaysNormalizesNeverTruncates ==
    \A r \in Reqs :
        endpoint[r] = "openai_embed" =>
            /\ calls[r].flags \subseteq {<< FALSE, TRUE >>}
            /\ calls[r].acquired > 0 => calls[r].flags # {}
            /\ status[r] = "ok" =>
                  LET data == response[r].body.data
                  IN /\ Len(data) = BatchSize(r)
                     /\ \A i \in 1..Len(data) :
                           /\ data[i].index = i - 1
                           /\ data[i].embedding =
                                 Embedding(request[r].items[i], FALSE, TRUE)

\* C25 witness: a successful OpenAI-compatible batch of two differing inputs
\* whose body asked for truncate = true and normalize = false, the second
\* input's call having returned first.
C25_Witness ==
    \E r \in Reqs :
        /\ endpoint[r] = "openai_embed" /\ status[r] = "ok"
        /\ request[r].shape = "Batch" /\ BatchSize(r) = 2
        /\ request[r].items[1] # request[r].items[2]
        /\ request[r].truncate /\ ~request[r].normalize
        /\ calls[r].flags = {<< FALSE, TRUE >>}
        /\ calls[r].reordered

\* C26: POST on / and on /invocations is handled by predict when the bound
\* model is a classifier, by rerank when it is a re-ranker and by embed when it
\* is an embedding model; the two routes have the same handler and no other.
C26_DefaultRoutesFollowModelType ==
    (probe.op = "route" /\ probe.input \in {"/", "/invocations"}) =>
        /\ model_type = "Classifier" => probe.output = "predict"
        /\ model_type = "Reranker" => probe.output = "rerank"
        /\ model_type = "Embedding" => probe.output = "embed"
        /\ PostRoute(model_type, "/") = PostRoute(model_type, "/invocations")

\* C26 witness: POST /invocations dispatched to rerank on a re-ranker.
C26_Witness ==
    /\ probe.op = "route" /\ probe.input = "/invocations"
    /\ model_type = "Reranker" /\ probe.output = "rerank"

\* The items of request r whose future is in state st.
ItemsIn(r, st) == {i \in 1..Len(futures[r]) : futures[r][i].st = st}

\* C27: an accepted batch of N items acquires exactly N permits and makes
\* exactly N inference calls, one per item, each after the item's own permit was
\* acquired; no failed call is made again.
C27_OnePermitAndOneCallPerItem ==
    /\ [](\A r \in Reqs :
            AcceptedBatch(r) =>
                /\ status[r] = "running" =>
                      /\ Len(futures[r]) = BatchSize(r)
                      /\ calls[r].acquired
                            = Cardinality(ItemsIn(r, "calling") \cup ItemsIn(r, "done"))
                      /\ calls[r].ok + calls[r].err = Cardinality(ItemsIn(r, "done"))
                /\ Finished(r) =>
                      /\ calls[r].acquired = BatchSize(r)
                      /\ calls[r].ok + calls[r].err = BatchSize(r))
    /\ [][\A r \in Reqs :
            (AcceptedBatch(r) /\ status[r] = "running") =>
                \A i \in 1..BatchSize(r) :
                    LET now == futures[r][i].st
                        next == IF futures'[r] = <<>> THEN "joined" ELSE futures'[r][i].st
                    IN /\ now = "waiting" =>
                             \/ next = "waiting"
                             \/ /\ next = "calling"
                                /\ permits' = permits - 1
                                /\ calls'[r].acquired = calls[r].acquired + 1
                       /\ now = "calling" =>
                             \/ next = "calling"
                             \/ /\ next \in {"done", "joined"}
                                /\ calls'[r].ok + calls'[r].err
                                      = calls[r].ok + calls[r].err + 1
                       /\ now = "done" =>
                             \/ next = "joined"
                             \/ futures'[r][i] = futures[r][i]
      ]_vars

\* C27 witness: an accepted batch of two items has ended with an error after
\* two permits and two calls, one failed and one successful.
C27_Witness ==
    \E r \in Reqs :
        /\ AcceptedBatch(r) /\ BatchSize(r) = 2 /\ status[r] = "error"
        /\ calls[r].acquired = 2 /\ calls[r].released = 2
        /\ calls[r].ok = 1 /\ calls[r].err = 1

\* The failed calls of request r, in the order they failed: items and errors.
FailedItems(r) == {calls[r].errors[k].item : k \in 1..Len(calls[r].errors)}
ErrorOfItem(r, i) ==
    LET k == CHOOSE k \in 1..Len(calls[r].errors) : calls[r].errors[k].item = i
    IN calls[r].errors[k].error

\* C28: a batch that fails returns its error only after all its N item calls
\* have ended, every item having acquired and released its permit, none
\* cancelled or skipped; the error returned is that of the failed item of lowest
\* input index, whichever item failed first.
C28_FailingBatchWaitsForAllItems ==
    \A r \in Reqs :
        (AcceptedBatch(r) /\ status[r] = "error") =>
            /\ calls[r].acquired = BatchSize(r)
            /\ calls[r].released = BatchSize(r)
            /\ calls[r].ok + calls[r].err = BatchSize(r)
            /\ Len(calls[r].errors) = calls[r].err
            /\ FailedItems(r) # {}
            /\ response[r] = ErrorOf(endpoint[r], ErrorOfItem(r, Min(FailedItems(r))))

\* C28 witness: in a batch of two, the second item failed first and the first
\* item then failed with another error, which is the one returned.
C28_Witness ==
    \E r \in Reqs :
        /\ AcceptedBatch(r) /\ status[r] = "error" /\ BatchSize(r) = 2
        /\ Len(calls[r].errors) = 2
        /\ calls[r].errors[1].item = 2 /\ calls[r].errors[2].item = 1
        /\ calls[r].errors[1].error # calls[r].errors[2].error
        /\ response[r].body.error_type = calls[r].errors[2].error.error_type
        /\ calls[r].released = 2

\* C29: a rerank request refused for the wrong model type adds exactly one to
\* te_request_failure{err=model_type} and changes no other counter:
\* te_request_count and te_request_success stay as they were, and no permit is
\* taken.
C29_WrongModelCountsOnlyModelType ==
    [][\A r \in Reqs :
        (Arrives(r) /\ endpoint'[r] = "rerank" /\ model_type # "Reranker") =>
            /\ status'[r] = "error"
            /\ te_request_failure' =
                 [te_request_failure EXCEPT !["model_type"] = @ + 1]
            /\ te_request_count' = te_request_count
            /\ te_request_success' = te_request_success
            /\ permits' = permits
            /\ calls'[r] = NoCalls
      ]_vars

\* C29 witness: a rerank request refused on an embedding model, counted once
\* under model_type and under nothing else.
C29_Witness ==
    \E r \in Reqs :
        /\ endpoint[r] = "rerank" /\ status[r] = "error" /\ model_type = "Embedding"
        /\ te_request_failure["model_type"] = 1
        /\ te_request_failure["batch_size"] = 0
        /\ \A m \in Methods : te_request_count[m] = 0 /\ te_request_success[m] = 0
        /\ permits = MaxConcurrentRequests

\* The method label of request r.
MethodOf(r) == IF request[r].shape = "Single" THEN "single" ELSE "batch"

\* The requests that te_request_count{method = m} has counted: those that got
\* past the checks made before the counter.
CountedRequests(m) ==
    {r \in Reqs :
        /\ endpoint[r] \in {"predict", "rerank", "embed", "openai_embed"}
        /\ MethodOf(r) = m
        /\ ~(endpoint[r] = "rerank" /\ model_type # "Reranker")}

\* The requests that collected all their item outcomes successfully.
CollectedAll(r) ==
    /\ Finished(r) /\ status[r] # "error"
    /\ calls[r].err = 0 /\ calls[r].ok = BatchSize(r)

\* C30: te_request_success{method} goes up by at most one per request, only
\* when all the outcomes of that request's items were collected successfully,
\* and never for a request that returns an error; so te_request_success{m} <=
\* te_request_count{m} for both methods, in every state.
C30_SuccessCountedOncePerSuccess ==
    /\ [](\A m \in Methods :
            /\ te_request_success[m]
                  = Cardinality({r \in CountedRequests(m) : CollectedAll(r)})
            /\ te_request_count[m] = Cardinality(CountedRequests(m))
            /\ te_request_success[m] <= te_request_count[m])
    /\ [][\A m \in Methods :
            \/ te_request_success'[m] = te_request_success[m]
            \/ /\ te_request_success'[m] = te_request_success[m] + 1
               /\ \E r \in Reqs :
                     /\ ~Finished(r) /\ CollectedAll(r)'
                     /\ MethodOf(r)' = m
                     /\ \A q \in Reqs \ {r} : status'[q] = status[q]
      ]_vars

\* C30 witness: of two batches counted, one returned an error and the other
\* was counted as a success.
C30_Witness ==
    /\ te_request_count["batch"] = 2
    /\ te_request_success["batch"] = 1
    /\ \E r \in Reqs : status[r] = "error" /\ calls[r].err >= 1
    /\ \E r \in Reqs : status[r] = "ok" /\ BatchSize(r) = 2

\* A top-level array that holds a string element and an array element.
MixesStringsAndArrays(seq) ==
    /\ \E i \in 1..Len(seq) : seq[i].t = "string"
    /\ \E j \in 1..Len(seq) : seq[j].t = "array"

\* C31: the first element of a top-level array alone decides between a flat
\* sequence and a batch: an array that mixes string and array elements, in
\* either order, is rejected, a decoded flat sequence comes from strings only,
\* and every element of a decoded batch comes from an array, never from a bare
\* string.
C31_MixedArraysRejected ==
    (probe.op = "deserialize" /\ probe.input.t = "array") =>
        LET seq == probe.input.a
            out == probe.output
        IN /\ MixesStringsAndArrays(seq) => ~out.ok
           /\ out.ok =>
                 /\ out.val.shape = "Batch" <=> seq[1].t = "array"
                 /\ out.val.shape = "Single" <=> seq[1].t = "string"
                 /\ out.val.shape = "Single" =>
                       /\ \A i \in 1..Len(seq) : seq[i].t = "string"
                       /\ out.val.items = << [i \in 1..Len(seq) |-> seq[i].s] >>
                 /\ out.val.shape = "Batch" =>
                       /\ Len(out.val.items) = Len(seq)
                       /\ \A i \in 1..Len(seq) :
                             /\ seq[i].t = "array"
                             /\ out.val.items[i] = VecString(seq[i])

\* C31 witness: [["a"], "b"], an array and then a bare string, is rejected.
C31_Witness ==
    /\ probe.op = "deserialize"
    /\ probe.input = JArray(<< JArray(<< JString("a") >>), JString("b") >>)
    /\ ~probe.output.ok

\* The request arriving as r in this step has the shape of a batch and holds one
\* item, or is a rerank request.
ArrivesAsSmallBatch(r) ==
    /\ Arrives(r)
    /\ request'[r].shape = "Batch"
    /\ (Len(request'[r].items) = 1 \/ endpoint'[r] = "rerank")

\* What C32 says of such an arrival: it is counted under method = batch and not
\* under single, it takes no permit on arrival and is not refused as
\* Overloaded, and with one item it waits for its permit, whatever is free.
AdmittedAsBatch(r) ==
    /\ te_request_count' = [te_request_count EXCEPT !["batch"] = @ + 1]
    /\ permits' = permits
    /\ calls'[r].acquired = 0
    /\ IF status'[r] = "error" THEN response'[r].body.error_type # "Overloaded" ELSE TRUE
    /\ IF Len(request'[r].items) = 1 /\ ~TooLarge(1)
       THEN status'[r] = "running" /\ futures'[r] = << Waiting >>
       ELSE TRUE

\* A batch never ends as Overloaded, and an item that waits gets its call only
\* by taking a free permit.
BlockingAcquire ==
    /\ [](\A r \in Reqs : IsBatch(r) => ErrorKind(r) # "Overloaded")
    /\ [][\A r \in Reqs :
            (IsBatch(r) /\ status[r] = "running" /\ futures'[r] # <<>>) =>
                \A i \in 1..Len(futures[r]) :
                    (futures[r][i].st = "waiting" /\ futures'[r][i].st # "waiting") =>
                        /\ permits > 0 /\ permits' = permits - 1
                        /\ futures'[r][i].st = "calling"
      ]_vars

\* C32 (as stated): a batch of exactly one item on predict or embed, and every
\* rerank request, is counted under method = batch, acquires by waiting and
\* never fails with Overloaded, also when no permit is free at its arrival.
C32_OneItemBatchIsABatch ==
    /\ BlockingAcquire
    /\ [][\A r \in Reqs : ArrivesAsSmallBatch(r) => AdmittedAsBatch(r)]_vars

\* C32 (amended): the same, for the rerank requests that arrive on a re-ranker
\* model; on another model rerank refuses the request before it counts it.
C32_OneItemBatchIsABatchOnceModelFits ==
    /\ BlockingAcquire
    /\ [][\A r \in Reqs :
            (ArrivesAsSmallBatch(r)
                /\ ~(endpoint'[r] = "rerank" /\ model_type # "Reranker"))
            => AdmittedAsBatch(r)]_vars

\* C32 witness: a batch of one item, counted as a batch, waits for a permit
\* while the only permit is held by another request's call.
C32_Witness ==
    \E r \in Reqs :
        /\ IsBatch(r) /\ BatchSize(r) = 1 /\ status[r] = "running"
        /\ futures[r] = << Waiting >>
        /\ permits = 0
        /\ te_request_count["batch"] >= 1
        /\ \E q \in Reqs \ {r} : InFlight(q) # {}

\* A structured error: a mapped status and a body naming the message and kind.
StructuredError(resp) ==
    /\ resp.schema = "native"
    /\ resp.body.error_type \in ErrorTypes
    /\ resp.code = StatusCode(resp.body.error_type)

====
